---- MODULE Spec2Model ----
(***************************************************************************)
(* Model of the ZeroStack2D interpreter (src/ZeroStack2D.py): the linked-  *)
(* list Stack class, the loading of the program file into a grid of rows,  *)
(* and the main loop (fetch, dispatch, movement).                          *)
(*                                                                         *)
(* Characters are one-character strings; a row, a file text and an input   *)
(* line are sequences of characters.  The stack is a sequence whose first  *)
(* element is the head of the linked list (the top).  The output stream is *)
(* the sequence of code points written to standard output.                 *)
(***************************************************************************)
EXTENDS Integers, Sequences, FiniteSets, TLC

VARIABLES args,      \* number of command-line arguments given (0 or 1)
          program,   \* the grid: a sequence of rows (src: program)
          x,         \* column of the instruction pointer
          y,         \* row of the instruction pointer
          d,         \* direction: 0 right, 1 up, 2 left, 3 down
          stack,     \* the data stack, top first
          ret,       \* value returned by the latest Stack.pop() call
          out,       \* code points written to standard output so far
          consumed,  \* lines read from standard input so far
          status,    \* "running", "exit0", "usage" (argparse's error exit)
                     \* or the name of the uncaught exception
          steps      \* iterations of the main loop started so far

vars == <<args, program, x, y, d, stack, ret, out, consumed, status, steps>>

----------------------------------------------------------------------------
(* Bounds of the model *)

\* Longest program file whose every content is explored.
MaxFileLen == 2

\* Deepest stack of operands read before a single instruction is applied.
MaxOperands == 3

\* Most lines standard input holds before its end.
MaxInput == 4

\* Largest number of `+` in a counting program.
MaxCount == 11

\* Iterations of the main loop explored per run.
MaxSteps == 14

----------------------------------------------------------------------------
(* Alphabet, program files and standard input *)

\* The instruction vocabulary of the dispatch chain.
Instructions ==
    {">", "<", "^", "v", "!", "0", "+", "-", ":", "\\", "/",
     "?", "~", "$", ".", ",", "|", "_", "@"}

\* Characters a program file is made of: the instructions, a space and the
\* line terminator.
Chars == Instructions \cup {" ", "\n"}

\* Every program file of at most MaxFileLen characters.
ShortFiles == UNION {[1..n -> Chars] : n \in 0..MaxFileLen}

\* k integer reads, which load k operands from standard input.
Preamble(k) == [i \in 1..k |-> "~"]

\* Program files that read up to MaxOperands operands and then hold one
\* more character: every instruction applied to every small stack.
OperandFiles ==
    {Preamble(k) \o <<c>> : k \in 1..MaxOperands, c \in Chars}

\* The two characters of the swap instruction.
SwapChars == {"\\", "/"}

\* Program files that read operands and then swap twice.
SwapTwiceFiles ==
    {Preamble(k) \o <<c1, c2>> :
         k \in 1..MaxOperands, c1 \in SwapChars, c2 \in SwapChars}

\* The counting program of n increments: `!`, n times `+`, then `.@`.
CountFile(n) == <<"!">> \o [i \in 1..n |-> "+"] \o <<".", "@">>

CountFiles == {CountFile(n) : n \in 0..MaxCount}

Files == ShortFiles \cup OperandFiles \cup SwapTwiceFiles \cup CountFiles

\* Lines standard input may deliver (without their terminator).
Lines == {<<>>, <<"0">>, <<"7">>, <<"-", "1">>, <<"a", "b">>}

\* ord() of the characters input lines are made of.
Ord(c) ==
    CASE c = "0" -> 48
      [] c = "1" -> 49
      [] c = "7" -> 55
      [] c = "-" -> 45
      [] c = "a" -> 97
      [] c = "b" -> 98

Digits == {"0", "1", "7"}

DigitVal(c) == Ord(c) - 48

RECURSIVE DigitsVal(_)
\* Value of a non-empty sequence of decimal digits.
DigitsVal(s) ==
    IF Len(s) = 1 THEN DigitVal(s[1])
    ELSE 10 * DigitsVal(SubSeq(s, 1, Len(s) - 1)) + DigitVal(s[Len(s)])

AllDigits(s) == Len(s) >= 1 /\ \A i \in 1..Len(s) : s[i] \in Digits

\* int(line) succeeds: an optional sign followed by at least one digit.
IsInt(line) ==
    IF Len(line) >= 1 /\ line[1] = "-"
    THEN AllDigits(Tail(line))
    ELSE AllDigits(line)

\* int(line) for a line that parses.
IntOf(line) ==
    IF line[1] = "-" THEN 0 - DigitsVal(Tail(line)) ELSE DigitsVal(line)

----------------------------------------------------------------------------
(* Loading the program: f.readlines() and list(i) *)

\* Index of the first line terminator of a non-empty text, or its length.
LineEnd(text) ==
    IF \E i \in 1..Len(text) : text[i] = "\n"
    THEN CHOOSE i \in 1..Len(text) :
             text[i] = "\n" /\ \A j \in 1..(i - 1) : text[j] # "\n"
    ELSE Len(text)

RECURSIVE ReadLines(_)
\* readlines(): the text cut after each line terminator, terminators kept.
ReadLines(text) ==
    IF text = <<>> THEN <<>>
    ELSE <<SubSeq(text, 1, LineEnd(text))>>
         \o ReadLines(SubSeq(text, LineEnd(text) + 1, Len(text)))

----------------------------------------------------------------------------
(* Output conversions *)

RECURSIVE NatStrReversed(_)
\* The digit loop altered to emit the least significant digit first.
NatStrReversed(n) ==
    IF n < 10 THEN <<48 + n>>
    ELSE <<48 + (n % 10)>> \o NatStrReversed(n \div 10)

RECURSIVE NatStr(_)
\* Decimal digits of a natural number, as code points.
NatStr(n) ==
    IF n < 10 THEN <<48 + n>> ELSE NatStr(n \div 10) \o <<48 + (n % 10)>>

\* str(n) for an integer, as code points.
Str(n) == IF n < 0 THEN <<45>> \o NatStr(0 - n) ELSE NatStr(n)

\* print(v): the decimal representation and a newline.
PrintNumber(v) == Str(v) \o <<10>>

MaxCodePoint == 1114111

\* chr(v) raises ValueError outside range(0x110000).
ChrOk(v) == v >= 0 /\ v <= MaxCodePoint

\* print(chr(v), end=''): the single character with code point v.
PrintChr(v) == <<v>>

----------------------------------------------------------------------------
(* class Stack *)

\* Stack.__bool__
NonEmpty(s) == s # <<>>

\* Stack.push
Push(s, data) == <<data>> \o s

\* Stack.pop altered to return the oldest element instead of the head.
PopDataOldest(s) == IF ~NonEmpty(s) THEN 0 ELSE s[Len(s)]

\* Stack.pop: the returned value
PopData(s) == IF ~NonEmpty(s) THEN 0 ELSE Head(s)

\* Stack.pop: the stack left behind
PopStack(s) == IF ~NonEmpty(s) THEN s ELSE Tail(s)

\* Stack.swap altered to leave a stack of fewer than two elements alone.
SwapNoPadding(s) ==
    IF Len(s) < 2 THEN s ELSE <<s[2], s[1]>> \o SubSeq(s, 3, Len(s))

\* Stack.swap altered to push the two values back in the order it popped
\* them out of.
SwapKeepsOrder(s) ==
    LET s1 == IF ~NonEmpty(s) THEN Push(s, 0) ELSE s
        a  == PopData(s1)
        s2 == PopStack(s1)
        b  == IF NonEmpty(s2) THEN PopData(s2) ELSE 0
        s3 == IF NonEmpty(s2) THEN PopStack(s2) ELSE s2
    IN  Push(Push(s3, b), a)

\* Stack.swap: the resulting stack
Swap(s) ==
    LET s1 == IF ~NonEmpty(s) THEN Push(s, 0) ELSE s
        a  == PopData(s1)
        s2 == PopStack(s1)
        b  == IF NonEmpty(s2) THEN PopData(s2) ELSE 0
        s3 == IF NonEmpty(s2) THEN PopStack(s2) ELSE s2
    IN  Push(Push(s3, a), b)

\* Stack.swap: the value its last pop() call returned
SwapRet(s) ==
    LET s1 == IF ~NonEmpty(s) THEN Push(s, 0) ELSE s
        s2 == PopStack(s1)
    IN  IF NonEmpty(s2) THEN PopData(s2) ELSE PopData(s1)

\* Stack.add altered to push the sum without popping the top.
AddKeepsTop(s, b) == Push(s, b + PopData(s))

\* Stack.add
Add(s, b) == Push(PopStack(s), b + PopData(s))

----------------------------------------------------------------------------
(* Main loop: fetch and movement *)

\* seq[i] of Python for a zero-based index i: negative indices count from
\* the end, anything else outside the sequence raises IndexError.
InRange(seq, i) == i >= 0 - Len(seq) /\ i < Len(seq)

Item(seq, i) == IF i >= 0 THEN seq[i + 1] ELSE seq[Len(seq) + i + 1]

\* The fetch altered to wrap every index around the grid.
FetchWrapped(prog, px, py) ==
    IF prog = <<>> THEN " "
    ELSE LET row == prog[(py % Len(prog)) + 1]
         IN  row[(px % Len(row)) + 1]

\* cmd = program[y][x], or " " on IndexError
Fetch(prog, px, py) ==
    IF InRange(prog, py) /\ InRange(Item(prog, py), px)
    THEN Item(Item(prog, py), px)
    ELSE " "

cmd == Fetch(program, x, y)

MoveX(px, dir) == IF dir = 0 THEN px + 1 ELSE IF dir = 2 THEN px - 1 ELSE px

MoveY(py, dir) == IF dir = 1 THEN py - 1 ELSE IF dir = 3 THEN py + 1 ELSE py

\* A loop iteration starts: the run is live and within the model's bound.
Fetched(cs) ==
    /\ status = "running"
    /\ steps < MaxSteps
    /\ cmd \in cs
    /\ steps' = steps + 1
    /\ UNCHANGED <<args, program>>

\* The movement altered to use the direction held before the dispatch.
AdvanceOldDirection(nd) ==
    /\ d' = nd
    /\ x' = MoveX(x, d)
    /\ y' = MoveY(y, d)
    /\ status' = "running"

\* The iteration completes: the IP moves one cell in direction nd.
Advance(nd) ==
    /\ d' = nd
    /\ x' = MoveX(x, nd)
    /\ y' = MoveY(y, nd)
    /\ status' = "running"

\* The iteration ends the process: sys.exit(0) or an uncaught exception.
Terminate(how) ==
    /\ status' = how
    /\ UNCHANGED <<x, y, d>>

\* Exit status of the process once it has ended: sys.exit(0), argparse's
\* error exit, or an uncaught exception.
ExitStatus(st) == IF st = "exit0" THEN 0 ELSE IF st = "usage" THEN 2 ELSE 1

----------------------------------------------------------------------------
(* Main loop: one action per branch of the dispatch chain *)

Right ==
    /\ Fetched({">"})
    /\ Advance(0)
    /\ UNCHANGED <<stack, ret, out, consumed>>

Left ==
    /\ Fetched({"<"})
    /\ Advance(2)
    /\ UNCHANGED <<stack, ret, out, consumed>>

Up ==
    /\ Fetched({"^"})
    /\ Advance(1)
    /\ UNCHANGED <<stack, ret, out, consumed>>

Down ==
    /\ Fetched({"v"})
    /\ Advance(3)
    /\ UNCHANGED <<stack, ret, out, consumed>>

\* The push altered to reset the direction to RIGHT.
PushZeroResetsDirection ==
    /\ Fetched({"!", "0"})
    /\ stack' = Push(stack, 0)
    /\ Advance(0)
    /\ UNCHANGED <<ret, out, consumed>>

PushZero ==
    /\ Fetched({"!", "0"})
    /\ stack' = Push(stack, 0)
    /\ Advance(d)
    /\ UNCHANGED <<ret, out, consumed>>

Inc ==
    /\ Fetched({"+"})
    /\ stack' = Add(stack, 1)
    /\ ret' = PopData(stack)
    /\ Advance(d)
    /\ UNCHANGED <<out, consumed>>

Dec ==
    /\ Fetched({"-"})
    /\ stack' = Add(stack, -1)
    /\ ret' = PopData(stack)
    /\ Advance(d)
    /\ UNCHANGED <<out, consumed>>

\* The duplication altered to push the popped value back only once.
DupPushesOnce ==
    /\ Fetched({":"})
    /\ stack' = Push(PopStack(stack), PopData(stack))
    /\ ret' = PopData(stack)
    /\ Advance(d)
    /\ UNCHANGED <<out, consumed>>

Dup ==
    /\ Fetched({":"})
    /\ LET k == PopData(stack)
       IN  /\ stack' = Push(Push(PopStack(stack), k), k)
           /\ ret' = k
    /\ Advance(d)
    /\ UNCHANGED <<out, consumed>>

SwapTop ==
    /\ Fetched({"\\", "/"})
    /\ stack' = Swap(stack)
    /\ ret' = SwapRet(stack)
    /\ Advance(d)
    /\ UNCHANGED <<out, consumed>>

\* stack.push(ord(input()))
ReadChar ==
    /\ Fetched({"?"})
    /\ \/ \E line \in Lines :
            /\ Len(consumed) < MaxInput
            /\ consumed' = Append(consumed, line)
            /\ IF Len(line) = 1
               THEN /\ stack' = Push(stack, Ord(line[1]))
                    /\ Advance(d)
               ELSE /\ Terminate("TypeError")
                    /\ UNCHANGED stack
       \/ /\ Terminate("EOFError")
          /\ UNCHANGED <<stack, consumed>>
    /\ UNCHANGED <<ret, out>>

\* The integer read altered to push 0 for a line that does not parse.
ReadIntDefaultsToZero ==
    /\ Fetched({"~"})
    /\ \/ \E line \in Lines :
            /\ Len(consumed) < MaxInput
            /\ consumed' = Append(consumed, line)
            /\ stack' = Push(stack, IF IsInt(line) THEN IntOf(line) ELSE 0)
            /\ Advance(d)
       \/ /\ Terminate("EOFError")
          /\ UNCHANGED <<stack, consumed>>
    /\ UNCHANGED <<ret, out>>

\* stack.push(int(input()))
ReadInt ==
    /\ Fetched({"~"})
    /\ \/ \E line \in Lines :
            /\ Len(consumed) < MaxInput
            /\ consumed' = Append(consumed, line)
            /\ IF IsInt(line)
               THEN /\ stack' = Push(stack, IntOf(line))
                    /\ Advance(d)
               ELSE /\ Terminate("ValueError")
                    /\ UNCHANGED stack
       \/ /\ Terminate("EOFError")
          /\ UNCHANGED <<stack, consumed>>
    /\ UNCHANGED <<ret, out>>

Drop ==
    /\ Fetched({"$"})
    /\ stack' = PopStack(stack)
    /\ ret' = PopData(stack)
    /\ Advance(d)
    /\ UNCHANGED <<out, consumed>>

\* print(stack.pop())
PrintNum ==
    /\ Fetched({"."})
    /\ stack' = PopStack(stack)
    /\ ret' = PopData(stack)
    /\ out' = out \o PrintNumber(PopData(stack))
    /\ Advance(d)
    /\ UNCHANGED consumed

\* print(chr(stack.pop()), end='')
PrintChar ==
    /\ Fetched({","})
    /\ stack' = PopStack(stack)
    /\ ret' = PopData(stack)
    /\ IF ChrOk(PopData(stack))
       THEN /\ out' = out \o PrintChr(PopData(stack))
            /\ Advance(d)
       ELSE /\ Terminate("ValueError")
            /\ UNCHANGED out
    /\ UNCHANGED consumed

\* The vertical branch altered to go down on nonzero and up on zero.
VBranchDirInverted(a) == IF a # 0 THEN 3 ELSE 1

\* Vertical branch: the direction chosen for the popped value a
VBranchDir(a) == IF a # 0 THEN 1 ELSE 3

\* Vertical branch
VBranch ==
    /\ Fetched({"|"})
    /\ IF NonEmpty(stack)
       THEN LET a == PopData(stack)
            IN  /\ stack' = Push(PopStack(stack), a)
                /\ ret' = a
                /\ Advance(VBranchDir(a))
       ELSE /\ Advance(3)
            /\ UNCHANGED <<stack, ret>>
    /\ UNCHANGED <<out, consumed>>

\* Horizontal branch: the direction chosen for the popped value a
HBranchDir(a) == IF a # 0 THEN 0 ELSE 2

\* The horizontal branch altered to inspect the value of its first pop().
HBranchValueTop(s) == PopData(s)

\* Horizontal branch: the value a left by its two pop() calls
HBranchValue(s) == PopData(PopStack(s))

\* Horizontal branch
HBranch ==
    /\ Fetched({"_"})
    /\ IF NonEmpty(stack)
       THEN LET a == HBranchValue(stack)
            IN  /\ stack' = Push(PopStack(PopStack(stack)), a)
                /\ ret' = a
                /\ Advance(HBranchDir(a))
       ELSE /\ Advance(2)
            /\ UNCHANGED <<stack, ret>>
    /\ UNCHANGED <<out, consumed>>

\* The halt altered to take effect only after the movement.
HaltAfterMove ==
    /\ Fetched({"@"})
    /\ status' = "exit0"
    /\ d' = d
    /\ x' = MoveX(x, d)
    /\ y' = MoveY(y, d)
    /\ UNCHANGED <<stack, ret, out, consumed>>

\* sys.exit(0)
Halt ==
    /\ Fetched({"@"})
    /\ Terminate("exit0")
    /\ UNCHANGED <<stack, ret, out, consumed>>

\* The fall-through altered to end the run on an unknown character.
NoOpHalts ==
    /\ Fetched(Chars \ Instructions)
    /\ Terminate("exit0")
    /\ UNCHANGED <<stack, ret, out, consumed>>

\* No branch of the chain matches: only the movement happens.
NoOp ==
    /\ Fetched(Chars \ Instructions)
    /\ Advance(d)
    /\ UNCHANGED <<stack, ret, out, consumed>>

----------------------------------------------------------------------------
(* Specification *)

\* parse_args(): without the input_file argument argparse writes its usage
\* message to standard error and exits with status 2 (a SystemExit, which
\* the except IndexError clause does not catch); no grid is ever loaded.
Init ==
    /\ \/ /\ args = 1
          /\ \E text \in Files : program = ReadLines(text)
          /\ status = "running"
       \/ /\ args = 0
          /\ program = <<>>
          /\ status = "usage"
    /\ x = 0
    /\ y = 0
    /\ d = 0
    /\ stack = <<>>
    /\ ret = 0
    /\ out = <<>>
    /\ consumed = <<>>
    /\ steps = 0

Next ==
    \/ Right
    \/ Left
    \/ Up
    \/ Down
    \/ PushZero
    \/ Inc
    \/ Dec
    \/ Dup
    \/ SwapTop
    \/ ReadChar
    \/ ReadInt
    \/ Drop
    \/ PrintNum
    \/ PrintChar
    \/ VBranch
    \/ HBranch
    \/ Halt
    \/ NoOp

Spec == Init /\ [][Next]_vars

----------------------------------------------------------------------------
(* Vocabulary of the properties *)

\* The position is a cell of the grid: row y exists and has a column x.
OnGrid(prog, px, py) ==
    /\ py >= 0
    /\ py < Len(prog)
    /\ px >= 0
    /\ px < Len(prog[py + 1])

\* The instruction the latest iteration executed (steps >= 1): a completed
\* iteration left its cell by one move in the direction d, an iteration that
\* ended the run did not move.
LastCmd ==
    IF status = "running"
    THEN Fetch(program, x - MoveX(0, d), y - MoveY(0, d))
    ELSE Fetch(program, x, y)

\* An iteration is about to execute instruction c.
Executes(c) == status = "running" /\ cmd = c

\* The line the step has just read from standard input.
LineRead == consumed'[Len(consumed')]

----------------------------------------------------------------------------
(* C1 *)

\* C1: a fetch at a position outside the grid (y outside [0, rowCount) or
\* x outside [0, rowLength(y)), in particular any negative x or y) yields
\* the blank and never a character of the grid.
C1_OffGridFetchIsBlank == ~OnGrid(program, x, y) => cmd = " "

----------------------------------------------------------------------------
(* C2 *)

\* C2: a `?` that reads a line of at least one character, whatever its
\* length, consumes exactly that one line, pushes the code point of its
\* first character and the run continues.
C2_ReadCharTakesFirstCharacter ==
    [][(Executes("?") /\ Len(consumed') > Len(consumed)
           /\ Len(LineRead) >= 1)
       => /\ Len(consumed') = Len(consumed) + 1
          /\ stack' = <<Ord(LineRead[1])>> \o stack
          /\ status' = "running"]_vars

----------------------------------------------------------------------------
(* C3 *)

\* C3: a pop (as `$`, `.` and `,` perform it) on an empty stack returns 0
\* and leaves the stack empty; on a non-empty stack it returns the top, which
\* is the most recently pushed value still on the stack, and the size drops
\* by exactly one.  A push (`!`, `0`, a successful read) puts its value on top
\* of the unchanged stack.
C3_PopContract ==
    [][/\ (Executes("$") \/ Executes(".") \/ Executes(","))
          => IF stack = <<>>
             THEN ret' = 0 /\ stack' = <<>>
             ELSE /\ ret' = stack[1]
                  /\ Len(stack') = Len(stack) - 1
                  /\ \A i \in 1..Len(stack') : stack'[i] = stack[i + 1]
       /\ (Executes("!") \/ Executes("0"))
          => stack' = <<0>> \o stack
       /\ (Executes("~") /\ status' = "running")
          => stack' = <<IntOf(LineRead)>> \o stack]_vars

\* `$` has popped 7 off a stack that held -1 below it.
C3_Witness ==
    /\ steps = 3
    /\ LastCmd = "$"
    /\ consumed = <<<<"-", "1">>, <<"7">>>>
    /\ ret = 7
    /\ stack = <<-1>>

----------------------------------------------------------------------------
(* C4 *)

\* C4: swap on an empty stack leaves exactly two zeros; swap on a stack of
\* one value a leaves 0 on top and a below it; in both cases the run goes on.
C4_SwapPadsShortStacks ==
    [][(Executes("\\") \/ Executes("/"))
       => /\ status' = "running"
          /\ stack = <<>> => stack' = <<0, 0>>
          /\ Len(stack) = 1 => stack' = <<0, stack[1]>>]_vars

\* A swap has been applied to the one-element stack holding the 7 read.
C4_Witness ==
    /\ steps = 2
    /\ LastCmd \in {"\\", "/"}
    /\ consumed = <<<<"7">>>>
    /\ stack = <<0, 7>>

----------------------------------------------------------------------------
(* C5 *)

\* C5: `_` on a non-empty stack of size n discards the top, takes a = the
\* original second element (0 if n = 1), sets the direction RIGHT if a is
\* nonzero and LEFT otherwise, and leaves a on top of the original elements
\* below the second, so the size is max(1, n - 1); on an empty stack it sets
\* the direction LEFT and leaves the stack empty.
C5_HorizontalBranch ==
    [][Executes("_")
       => IF stack = <<>>
          THEN d' = 2 /\ stack' = <<>>
          ELSE LET n == Len(stack)
                   a == IF n = 1 THEN 0 ELSE stack[2]
               IN  /\ d' = (IF a # 0 THEN 0 ELSE 2)
                   /\ stack' = <<a>> \o SubSeq(stack, 3, n)
                   /\ Len(stack') = (IF n = 1 THEN 1 ELSE n - 1)]_vars

\* `_` has met the stack 0, 7, -1 (0 on top): the 0 is gone, the 7 inspected
\* and restored, and the direction is RIGHT.
C5_Witness ==
    /\ steps = 4
    /\ LastCmd = "_"
    /\ consumed = <<<<"-", "1">>, <<"7">>, <<"0">>>>
    /\ stack = <<7, -1>>
    /\ d = 0

----------------------------------------------------------------------------
(* C6 *)

\* C6: `|` leaves the stack exactly as it was; it sets the direction UP if
\* the top is nonzero, DOWN if the top is zero or the stack is empty.
C6_VerticalBranch ==
    [][Executes("|")
       => /\ stack' = stack
          /\ d' = (IF stack = <<>> THEN 3
                   ELSE IF stack[1] # 0 THEN 1 ELSE 3)]_vars

\* `|` has met the stack 7, 0 (7 on top) and turned the IP up.
C6_Witness ==
    /\ steps = 3
    /\ LastCmd = "|"
    /\ consumed = <<<<"0">>, <<"7">>>>
    /\ stack = <<7, 0>>
    /\ d = 1
    /\ y = -1

----------------------------------------------------------------------------
(* C7 *)

\* C7: a step after which the run continues moves the IP by exactly one cell
\* along one axis, in the direction held after the dispatch; `>`, `<`, `^`
\* and `v` set that direction on the same step, `|` and `_` choose a vertical
\* or horizontal one, and a character outside the vocabulary leaves it as it
\* was.
C7_MoveInUpdatedDirection ==
    [][(status = "running" /\ status' = "running")
       => /\ d' = 0 => (x' = x + 1 /\ y' = y)
          /\ d' = 1 => (x' = x /\ y' = y - 1)
          /\ d' = 2 => (x' = x - 1 /\ y' = y)
          /\ d' = 3 => (x' = x /\ y' = y + 1)
          /\ d' \in 0..3
          /\ cmd = ">" => d' = 0
          /\ cmd = "^" => d' = 1
          /\ cmd = "<" => d' = 2
          /\ cmd = "v" => d' = 3
          /\ cmd = "|" => d' \in {1, 3}
          /\ cmd = "_" => d' \in {0, 2}
          /\ cmd \notin Instructions => d' = d]_vars

\* The first step executed `^` and moved up on that same step.
C7_Witness ==
    /\ steps = 1
    /\ status = "running"
    /\ LastCmd = "^"
    /\ d = 1
    /\ x = 0
    /\ y = -1

----------------------------------------------------------------------------
(* C8 *)

\* C8: only `@`, or a failed read in `?` or `~`, ends the run; no other
\* instruction does, whatever the stack holds.
C8_OnlyHaltAndReadsEndTheRun ==
    [][(status = "running" /\ status' # "running")
       => cmd \in {"@", "?", "~"}]_vars

----------------------------------------------------------------------------
(* C9 *)

\* The grid of the program file that holds the single character `>`.
OnlyRight == <<<<">">>>>

\* C9: on the 1x1 grid `>` the run never ends; the direction stays RIGHT, the
\* stack and the output stay empty, y stays 0 and x has grown by one with
\* every step, so after the first step x >= 1 and every fetch is blank.
C9_RightForever ==
    program = OnlyRight
    => /\ status = "running"
       /\ d = 0
       /\ stack = <<>>
       /\ out = <<>>
       /\ y = 0
       /\ x = steps
       /\ steps >= 1 => (x >= 1 /\ cmd = " ")

\* The IP of the 1x1 grid `>` has run four cells to the right of the origin.
C9_Witness == program = OnlyRight /\ x = 4 /\ steps = 4

----------------------------------------------------------------------------
(* C10 *)

\* C10: `@` ends the run with exit status 0 on the step that executes it,
\* without moving, touching the stack or writing; nothing is executed once
\* the run has ended; a program whose cell (0,0) is `@` ends on its first step
\* with empty output.
C10_HaltIsImmediate ==
    /\ [][Executes("@")
          => /\ status' = "exit0"
             /\ ExitStatus(status') = 0
             /\ x' = x /\ y' = y /\ d' = d
             /\ stack' = stack
             /\ out' = out]_vars
    /\ [][status = "running"]_vars
    /\ []((Fetch(program, 0, 0) = "@" /\ steps >= 1)
          => (steps = 1 /\ status = "exit0" /\ out = <<>>
              /\ x = 0 /\ y = 0 /\ stack = <<>>))

\* A program starting with `@` has ended on its first step.
C10_Witness ==
    /\ steps = 1
    /\ status = "exit0"
    /\ LastCmd = "@"
    /\ x = 0
    /\ y = 0
    /\ out = <<>>

----------------------------------------------------------------------------
(* Decimal notation, stated independently of the conversion *)

RECURSIVE DecimalValue(_)
\* The number a non-empty sequence of digit code points denotes.
DecimalValue(cps) ==
    IF Len(cps) = 1 THEN cps[1] - 48
    ELSE 10 * DecimalValue(SubSeq(cps, 1, Len(cps) - 1)) + (cps[Len(cps)] - 48)

\* cps is the decimal representation of the natural number n: digits only,
\* no leading zero, denoting n.
IsDecimalOfNat(cps, n) ==
    /\ Len(cps) >= 1
    /\ \A i \in 1..Len(cps) : cps[i] \in 48..57
    /\ (Len(cps) > 1 => cps[1] # 48)
    /\ DecimalValue(cps) = n

\* cps is the decimal representation of the integer n (a minus sign before
\* the digits of a negative one).
IsDecimalOf(cps, n) ==
    IF n < 0
    THEN Len(cps) >= 2 /\ cps[1] = 45 /\ IsDecimalOfNat(Tail(cps), 0 - n)
    ELSE IsDecimalOfNat(cps, n)

\* out is exactly the decimal representation of n and one newline.
IsNumberLine(cps, n) ==
    /\ Len(cps) >= 2
    /\ cps[Len(cps)] = 10
    /\ IsDecimalOf(SubSeq(cps, 1, Len(cps) - 1), n)

----------------------------------------------------------------------------
(* C11 *)

\* C11: the one-row program `!`, n times `+`, `.@` halts with exit status 0
\* on its step n + 3, having written exactly the decimal representation of n
\* and one newline; it writes nothing before the `.` executes.
C11_CountingProgramPrintsN ==
    \A n \in 0..MaxCount :
        program = <<CountFile(n)>>
        => /\ status \in {"running", "exit0"}
           /\ steps >= n + 3 => (status = "exit0" /\ steps = n + 3)
           /\ steps < n + 3 => status = "running"
           /\ steps <= n + 1 => out = <<>>
           /\ steps >= n + 2 => IsNumberLine(out, n)
           /\ status = "exit0" => ExitStatus(status) = 0

\* The program of ten increments has halted after writing 10 and a newline.
C11_Witness ==
    /\ program = <<CountFile(10)>>
    /\ status = "exit0"
    /\ out = <<49, 48, 10>>
    /\ stack = <<>>

----------------------------------------------------------------------------
(* C12 *)

\* The step ends the run with a non-zero exit status where it stands,
\* pushing nothing.
ReadFails ==
    /\ status' # "running"
    /\ ExitStatus(status') # 0
    /\ stack' = stack
    /\ x' = x /\ y' = y /\ d' = d

\* C12: a `~` whose line is not a base-10 signed integer, and a `?` or `~`
\* that finds standard input at its end, end the run with a non-zero exit
\* status and push nothing, and no instruction executes once the run has
\* ended.
C12_FailedReadIsFatal ==
    [][/\ (Executes("~") /\ Len(consumed') > Len(consumed)
              /\ ~IsInt(LineRead))
          => ReadFails
       /\ ((Executes("?") \/ Executes("~")) /\ steps' # steps
              /\ consumed' = consumed)
          => ReadFails
       /\ status = "running"]_vars

\* `~` has read 7, then a second `~` met the line ab and ended the run.
C12_Witness ==
    /\ steps = 2
    /\ status = "ValueError"
    /\ LastCmd = "~"
    /\ consumed = <<<<"7">>, <<"a", "b">>>>
    /\ stack = <<7>>

----------------------------------------------------------------------------
(* C13 *)

\* C13: invoked without the program-file argument the process ends with exit
\* status 0, having written nothing and executed no instruction.
C13_NoArgumentExitsQuietly ==
    args = 0
    => /\ status = "exit0"
       /\ ExitStatus(status) = 0
       /\ out = <<>>
       /\ steps = 0

----------------------------------------------------------------------------
(* C14 *)

\* C14: `:` on a non-empty stack with top k makes the stack one longer, with
\* k as its top and second values and everything below unchanged; on an empty
\* stack it leaves exactly two zeros.
C14_Duplicate ==
    [][Executes(":")
       => IF stack = <<>>
          THEN stack' = <<0, 0>>
          ELSE /\ Len(stack') = Len(stack) + 1
               /\ stack'[1] = stack[1]
               /\ stack'[2] = stack[1]
               /\ \A i \in 2..Len(stack) : stack'[i + 1] = stack[i]]_vars

\* `:` has duplicated the 7 on top of -1.
C14_Witness ==
    /\ steps = 3
    /\ LastCmd = ":"
    /\ consumed = <<<<"-", "1">>, <<"7">>>>
    /\ stack = <<7, 7, -1>>

----------------------------------------------------------------------------
(* C15 *)

\* C15: `+` (delta 1) and `-` (delta -1) on an empty stack leave the single
\* value delta; on a non-empty stack they replace the top a by a + delta and
\* leave the size and every element below unchanged.
C15_AddToTop ==
    [][(Executes("+") \/ Executes("-"))
       => LET delta == IF cmd = "+" THEN 1 ELSE -1
          IN  IF stack = <<>>
              THEN stack' = <<delta>>
              ELSE /\ Len(stack') = Len(stack)
                   /\ stack'[1] = stack[1] + delta
                   /\ \A i \in 2..Len(stack) : stack'[i] = stack[i]]_vars

\* `-` has turned the 7 on top of -1 into 6.
C15_Witness ==
    /\ steps = 3
    /\ LastCmd = "-"
    /\ consumed = <<<<"-", "1">>, <<"7">>>>
    /\ stack = <<6, -1>>

----------------------------------------------------------------------------
(* C16 *)

\* C16: the output grows only by the items of the output instructions, in the
\* order they execute: every `.` appends the decimal representation of the
\* popped value (0 on an empty stack) and a newline, every `,` appends the one
\* character whose code point is the popped value, and no other instruction
\* writes.
C16_OutputIsTheItemsInOrder ==
    [][status = "running"
       => LET v == IF stack = <<>> THEN 0 ELSE stack[1]
              n == Len(out)
          IN  /\ cmd = "."
                 => /\ Len(out') > n
                    /\ SubSeq(out', 1, n) = out
                    /\ IsNumberLine(SubSeq(out', n + 1, Len(out')), v)
              /\ cmd = "," => out' = out \o <<v>>
              /\ cmd \notin {".", ","} => out' = out]_vars

----------------------------------------------------------------------------
(* C17 *)

\* The stack the reads of a preamble leave: the lines read, latest on top.
OperandStack ==
    [i \in 1..Len(consumed) |-> IntOf(consumed[Len(consumed) + 1 - i])]

\* C17: swap on a stack of at least two elements exchanges the top two and
\* leaves the size and the elements below unchanged; two swaps in a row on
\* such a stack restore the stack the operands formed.
C17_SwapExchangesTopTwo ==
    /\ [][((Executes("\\") \/ Executes("/")) /\ Len(stack) >= 2)
          => /\ Len(stack') = Len(stack)
             /\ stack'[1] = stack[2]
             /\ stack'[2] = stack[1]
             /\ \A i \in 3..Len(stack) : stack'[i] = stack[i]]_vars
    /\ [](\A k \in 2..MaxOperands : \A c1 \in SwapChars : \A c2 \in SwapChars :
              (/\ program = <<Preamble(k) \o <<c1, c2>>>>
               /\ status = "running"
               /\ steps >= k + 2)
              => stack = OperandStack)

\* Two swaps have been applied to the stack 7, -1 and it is 7, -1 again.
C17_Witness ==
    /\ program = <<<<"~", "~", "/", "\\">>>>
    /\ steps = 4
    /\ status = "running"
    /\ consumed = <<<<"-", "1">>, <<"7">>>>
    /\ stack = <<7, -1>>

----------------------------------------------------------------------------
(* C18 *)

\* C18: a step whose fetched character is outside the instruction vocabulary
\* (a line terminator of a row, a space, the blank of an out-of-bounds fetch)
\* leaves the stack, the direction, the output and the grid unchanged and
\* moves the position by one cell in the direction.
C18_UnknownCharacterOnlyMoves ==
    [][(status = "running" /\ cmd \notin Instructions)
       => /\ stack' = stack
          /\ d' = d
          /\ out' = out
          /\ program' = program
          /\ consumed' = consumed
          /\ status' = "running"
          /\ \/ d = 0 /\ x' = x + 1 /\ y' = y
             \/ d = 1 /\ x' = x /\ y' = y - 1
             \/ d = 2 /\ x' = x - 1 /\ y' = y
             \/ d = 3 /\ x' = x /\ y' = y + 1]_vars

\* The line terminator that ends the row `~` has been stepped over with the
\* 7 read still alone on the stack.
C18_Witness ==
    /\ program = <<<<"~", "\n">>>>
    /\ steps = 2
    /\ status = "running"
    /\ LastCmd = "\n"
    /\ x = 2
    /\ y = 0
    /\ d = 0
    /\ stack = <<7>>

----------------------------------------------------------------------------
(* C19 *)

\* The instructions that set the direction outright, and those that work on
\* the stack or on the input and output.
DirectionChars == {">", "<", "^", "v"}

StackAndIOChars == {"!", "0", "+", "-", ":", "\\", "/", "?", "~", "$", ".", ","}

\* C19: the direction is always one of RIGHT, UP, LEFT, DOWN; it changes
\* only on a step that executes `>`, `<`, `^`, `v`, `|` or `_`; the four
\* direction instructions leave the stack unchanged and every stack or I/O
\* instruction leaves the direction unchanged.
C19_DirectionDiscipline ==
    /\ [](d \in 0..3)
    /\ [][status = "running"
          => /\ d' # d => cmd \in DirectionChars \cup {"|", "_"}
             /\ cmd \in DirectionChars => stack' = stack
             /\ cmd \in StackAndIOChars => d' = d]_vars

\* `v` has turned the IP down and left the 7 read on the stack.
C19_Witness ==
    /\ steps = 2
    /\ LastCmd = "v"
    /\ consumed = <<<<"7">>>>
    /\ stack = <<7>>
    /\ d = 3
    /\ y = 1

====
